---- MODULE Spec2Model ----
(***************************************************************************)
(* CBDB / CHGIS tool servers: cbdb_addr.py, cbdb_addr_person.py, chgis.py. *)
(* Every tool is one coroutine: build the request, open an                 *)
(* httpx.AsyncClient, await one GET, post-process, leave the client's      *)
(* context, turn an exception into an error dictionary.  The coroutines of *)
(* concurrent invocations interleave at their await points.                *)
(***************************************************************************)
EXTENDS Integers, Sequences, FiniteSets, TLC

(***************************************************************************)
(* Bounds of the model.                                                    *)
(***************************************************************************)
MaxLen == 4        \* longest upstream 'placenames' list
MaxStart == 6      \* largest 'start' argument
MaxPage == 3       \* largest 'list_length' argument
MaxIdLen == 2      \* longest free part of a place identifier

(***************************************************************************)
(* Python values.  A text is a sequence of tokens (a literal of the source *)
(* is one token, a formatted number is one token per digit), so that       *)
(* formatting is concatenation.                                            *)
(***************************************************************************)
PyNone == [t |-> "None"]
PyInt(n) == [t |-> "int", v |-> n]
PyStr(s) == [t |-> "str", v |-> s]
PyList(s) == [t |-> "list", v |-> s]
PyDict(f) == [t |-> "dict", v |-> f]

Digit == <<"0", "1", "2", "3", "4", "5", "6", "7", "8", "9">>

RECURSIVE StrNat(_)
StrNat(n) == IF n < 10 THEN <<Digit[n + 1]>>
             ELSE StrNat(n \div 10) \o <<Digit[(n % 10) + 1]>>

\* str(n), and the {n} of an f-string, for an int
StrOf(n) == IF n < 0 THEN <<"-">> \o StrNat(0 - n) ELSE StrNat(n)

\* seq[a:b]
PySlice(seq, a, b) ==
    LET n == Len(seq)
        clamp(k) == IF k < 0 THEN (IF k + n < 0 THEN 0 ELSE k + n)
                    ELSE IF k > n THEN n ELSE k
        lo == clamp(a)
        hi == clamp(b)
    IN  IF lo < hi THEN SubSeq(seq, lo + 1, hi) ELSE <<>>

\* a // b for b # 0 (floor division)
FloorDiv(a, b) == IF b > 0 THEN a \div b ELSE (0 - a) \div (0 - b)

PyMin(a, b) == IF a <= b THEN a ELSE b

\* s.startswith(prefix)
startswith(s, prefix) ==
    /\ Len(s) >= Len(prefix)
    /\ SubSeq(s, 1, Len(prefix)) = prefix

\* d[k] = v
SetItemOnly(d, k, v) == (k :> v)

SetItem(d, k, v) == (k :> v) @@ d

\* "x is not None"
IsNotNone(x) == x.t # "None"

\* "if x:" for the argument types of the tools
Truthy(x) ==
    /\ x.t # "None"
    /\ ~(x.t = "int" /\ x.v = 0)
    /\ ~(x.t \in {"str", "list"} /\ x.v = <<>>)

(***************************************************************************)
(* json.dumps: the text of a value, token by token.                        *)
(***************************************************************************)
Quoted(s) == <<"\"">> \o s \o <<"\"">>

RECURSIVE DumpItems(_, _)
RECURSIVE json_dumps_value(_)
json_dumps_value(x) ==
    CASE x.t = "None" -> <<"null">>
      [] x.t = "int"  -> StrOf(x.v)
      [] x.t = "str"  -> Quoted(x.v)
      [] x.t = "list" -> <<"[">> \o DumpItems(x.v, 1) \o <<"]">>

DumpItems(s, k) ==
    IF k > Len(s) THEN <<>>
    ELSE json_dumps_value(s[k])
         \o (IF k < Len(s) THEN <<",">> ELSE <<>>)
         \o DumpItems(s, k + 1)

\* json.dumps of a dict given as its items in insertion order
RECURSIVE DumpPairs(_, _)
DumpPairs(items, k) ==
    IF k > Len(items) THEN <<>>
    ELSE Quoted(<<items[k][1]>>) \o <<":">> \o json_dumps_value(items[k][2])
         \o (IF k < Len(items) THEN <<",">> ELSE <<>>)
         \o DumpPairs(items, k + 1)

json_dumps(items) == <<"{">> \o DumpPairs(items, 1) \o <<"}">>

(***************************************************************************)
(* Requests.  A request is the URL text and the query parameters handed to *)
(* client.get; NoParams is a get without params.                           *)
(***************************************************************************)
NoParams == <<>>

Request(url, params) == [url |-> url, params |-> params]

\* cbdb_addr.py: api_url, params
search_places_under_location_params(a) ==
    LET p0 == [name |-> a.name, accurate |-> a.accurate,
               start |-> a.start, list |-> a.list_length]
        p1 == IF IsNotNone(a.startTime) THEN SetItem(p0, "startTime", a.startTime) ELSE p0
        p2 == IF IsNotNone(a.endTime) THEN SetItem(p1, "endTime", a.endTime) ELSE p1
    IN  p2

search_places_under_location_request(a) ==
    Request(<<"https://input.cbdb.fas.harvard.edu/api/place_list">>,
            search_places_under_location_params(a))

\* cbdb_addr_person.py: the second copy of the same tool
person_search_places_under_location_params(a) ==
    LET p0 == [name |-> a.name, accurate |-> a.accurate,
               start |-> a.start, list |-> a.list_length]
        p1 == IF IsNotNone(a.startTime) THEN SetItem(p0, "startTime", a.startTime) ELSE p0
        p2 == IF IsNotNone(a.endTime) THEN SetItem(p1, "endTime", a.endTime) ELSE p1
    IN  p2

person_search_places_under_location_request(a) ==
    Request(<<"https://input.cbdb.fas.harvard.edu/api/place_list">>,
            person_search_places_under_location_params(a))

\* cbdb_addr_person.py: payload, as the items of the dict in insertion order
query_people_by_place_payload(a) ==
    << <<"peoplePlace", a.people_place>>,
       <<"placeType", a.place_type>>,
       <<"useDate", a.use_date>>,
       <<"dateType", a.date_type>>,
       <<"dateStartTime", a.date_start_time>>,
       <<"dateEndTime", a.date_end_time>>,
       <<"dynStart", a.dyn_start>>,
       <<"dynEnd", a.dyn_end>>,
       <<"useXy", a.use_xy>>,
       <<"start", a.start>>,
       <<"list", a.list_length>> >>

\* request_payload = json.dumps(payload)
query_people_by_place_request_payload(a) == json_dumps(query_people_by_place_payload(a))

\* f"{api_url}?RequestPayload={request_payload}"
query_people_by_place_request(a) ==
    Request(<<"https://input.cbdb.fas.harvard.edu/api/query_place", "?RequestPayload=">>
                \o query_people_by_place_request_payload(a),
            NoParams)

\* chgis.py: params of the faceted search
search_historical_places_params_falsy(a) ==
    LET p0 == [fmt |-> PyStr(<<"json">>), n |-> a.name]
        p1 == IF Truthy(a.year) THEN SetItem(p0, "yr", a.year) ELSE p0
        p2 == IF Truthy(a.feature_type) THEN SetItem(p1, "ftyp", a.feature_type) ELSE p1
        p3 == IF Truthy(a.parent) THEN SetItem(p2, "p", a.parent) ELSE p2
    IN  p3

search_historical_places_params(a) ==
    LET p0 == [fmt |-> PyStr(<<"json">>), n |-> a.name]
        p1 == IF IsNotNone(a.year) THEN SetItem(p0, "yr", a.year) ELSE p0
        p2 == IF IsNotNone(a.feature_type) THEN SetItem(p1, "ftyp", a.feature_type) ELSE p1
        p3 == IF IsNotNone(a.parent) THEN SetItem(p2, "p", a.parent) ELSE p2
    IN  p3

search_historical_places_request(a) ==
    Request(<<"http://tgaz.fudan.edu.cn/tgaz/placename">>,
            search_historical_places_params(a))

\* chgis.py: the identifier used in the path
HvdPrefix == <<"h", "v", "d", "_">>

normalize_place_id_always(place_id) == HvdPrefix \o place_id

normalize_place_id(place_id) ==
    IF ~startswith(place_id, HvdPrefix) THEN HvdPrefix \o place_id ELSE place_id

get_place_details_request(a) ==
    Request(<<"http://tgaz.fudan.edu.cn/tgaz/placename/json/">>
                \o normalize_place_id(a.place_id.v),
            NoParams)

(***************************************************************************)
(* Exceptions.  An exception is its class, its text str(exc) and, for an   *)
(* HTTPStatusError, the status code of its response.                       *)
(***************************************************************************)
Exc(cls, text, status) == [cls |-> cls, text |-> text, status |-> status]

\* the base class of each class the handlers can meet
BaseOf(cls) ==
    CASE cls = "ConnectError"      -> "TransportError"
      [] cls = "ReadTimeout"       -> "TransportError"
      [] cls = "TransportError"    -> "RequestError"
      [] cls = "RequestError"      -> "HTTPError"
      [] cls = "HTTPStatusError"   -> "HTTPError"
      [] cls = "HTTPError"         -> "Exception"
      [] cls = "JSONDecodeError"   -> "ValueError"
      [] cls = "ValueError"        -> "Exception"
      [] cls = "ZeroDivisionError" -> "ArithmeticError"
      [] cls = "ArithmeticError"   -> "Exception"
      [] cls = "InvalidURL"        -> "Exception"
      [] OTHER                     -> "object"

RECURSIVE IsSubclass(_, _)
IsSubclass(cls, of) ==
    \/ cls = of
    \/ cls # "object" /\ IsSubclass(BaseOf(cls), of)

HTTPStatusError(code) ==
    Exc("HTTPStatusError",
        <<(IF code < 500 THEN "Client error '" ELSE "Server error '")>>
            \o StrOf(code) \o <<"' for url">>,
        code)

JSONDecodeError == Exc("JSONDecodeError", <<"Expecting value: line 1 column 1 (char 0)">>, 0)

ZeroDivisionError == Exc("ZeroDivisionError", <<"integer division or modulo by zero">>, 0)

(***************************************************************************)
(* What the body of the 'async with' block completes with: a value to      *)
(* return, or an exception.                                                *)
(***************************************************************************)
Returns(v) == [raised |-> FALSE, value |-> v]
Raises(e) == [raised |-> TRUE, exc |-> e]

\* response.raise_for_status() then response.json(); a reply is what
\* client.get gave: an exception of the transport, or a response
raise_for_status_then_json(reply) ==
    IF reply.kind = "error" THEN Raises(reply.exc)
    ELSE IF ~(reply.status >= 200 /\ reply.status <= 299) THEN Raises(HTTPStatusError(reply.status))
    ELSE IF ~reply.decodable THEN Raises(JSONDecodeError)
    ELSE Returns(reply.body)

\* chgis.py: the client-side pagination of search_historical_places
paginate_one_based(placenames, start, list_length) ==
    IF start <= Len(placenames)
    THEN PySlice(placenames, start, start + list_length)
    ELSE <<>>

paginate(placenames, start, list_length) ==
    IF start <= Len(placenames)
    THEN PySlice(placenames, start - 1, start - 1 + list_length)
    ELSE <<>>

pagination_end_unclamped(start, shown, total) == start + shown

pagination_end(start, shown, total) ==
    IF shown > 0 THEN PyMin(start + shown - 1, total) ELSE start

total_pages_floor(total, list_length) == FloorDiv(total, list_length)

total_pages(total, list_length) == FloorDiv(total + list_length - 1, list_length)

search_historical_places_results(results, start, list_length) ==
    IF "placenames" \in DOMAIN results.v /\ Truthy(results.v["placenames"])
    THEN LET placenames == results.v["placenames"].v
             paginated_results == paginate(placenames, start, list_length)
             r1 == SetItem(results.v, "placenames", PyList(paginated_results))
             r2 == SetItem(r1, "count of displayed results",
                           PyStr(StrOf(Len(paginated_results))))
         IN  \* "// list_length" raises when list_length is 0
             IF list_length = 0 THEN Raises(ZeroDivisionError)
             ELSE Returns(PyDict(SetItem(r2, "pagination",
                    PyDict([start |-> PyInt(start),
                            end |-> PyInt(pagination_end(start, Len(paginated_results),
                                                         Len(placenames))),
                            total_pages |-> PyInt(total_pages(Len(placenames),
                                                              list_length))]))))
    ELSE Returns(results)

\* the statements between client.get and the end of the 'async with' block
Body(call, reply) ==
    LET got == raise_for_status_then_json(reply)
    IN  IF got.raised THEN got
        ELSE IF call.tool = "search_historical_places"
             THEN search_historical_places_results(got.value, call.args.start.v,
                                                   call.args.list_length.v)
             ELSE got

(***************************************************************************)
(* The except clauses of each tool, in source order.  show = "exc" formats *)
(* the exception, show = "status_code" formats exc.response.status_code.   *)
(***************************************************************************)
Handler(cls, fmt, show) == [cls |-> cls, fmt |-> fmt, show |-> show]

two_tier_handlers ==
    << Handler("RequestError", "API request failed: ", "exc"),
       Handler("Exception", "An unexpected error occurred: ", "exc") >>

get_place_details_handlers_shadowed ==
    << Handler("Exception", "An unexpected error occurred: ", "exc"),
       Handler("RequestError", "API request failed: ", "exc"),
       Handler("HTTPStatusError", "HTTP error status: ", "status_code"),
       Handler("ValueError", "Invalid response format: ", "exc") >>

get_place_details_handlers ==
    << Handler("RequestError", "API request failed: ", "exc"),
       Handler("HTTPStatusError", "HTTP error status: ", "status_code"),
       Handler("ValueError", "Invalid response format: ", "exc"),
       Handler("Exception", "An unexpected error occurred: ", "exc") >>

handlers_without_catch_all(tool) ==
    IF tool = "get_place_details" THEN SubSeq(get_place_details_handlers, 1, 3)
    ELSE SubSeq(two_tier_handlers, 1, 1)

HandlersOf(tool) ==
    IF tool = "get_place_details" THEN get_place_details_handlers
    ELSE two_tier_handlers

\* {"error": f"<fmt>{...}"}
ErrorValue(h, exc) ==
    PyDict([error |-> PyStr(<<h.fmt>> \o (IF h.show = "status_code"
                                          THEN StrOf(exc.status)
                                          ELSE exc.text))])

\* try/except: the first clause whose class the exception is an instance of
RECURSIVE Catch(_, _, _)
Catch(hs, k, exc) ==
    IF k > Len(hs) THEN Raises(exc)
    ELSE IF IsSubclass(exc.cls, hs[k].cls) THEN Returns(ErrorValue(hs[k], exc))
    ELSE Catch(hs, k + 1, exc)

\* what the tool gives its caller once the block completed with c
Outcome(tool, c) == IF c.raised THEN Catch(HandlersOf(tool), 1, c.exc) ELSE c

\* the request a call builds before it opens its client
RequestOf(call) ==
    CASE call.tool = "cbdb_addr.search_places_under_location" ->
            search_places_under_location_request(call.args)
      [] call.tool = "cbdb_addr_person.search_places_under_location" ->
            person_search_places_under_location_request(call.args)
      [] call.tool = "query_people_by_place" ->
            query_people_by_place_request(call.args)
      [] call.tool = "search_historical_places" ->
            search_historical_places_request(call.args)
      [] call.tool = "get_place_details" ->
            get_place_details_request(call.args)

(***************************************************************************)
(* The inputs: the calls the host makes and the replies of the upstream    *)
(* services.                                                               *)
(***************************************************************************)
Text(s) == PyStr(<<s>>)

Call(tool, args) == [tool |-> tool, args |-> args]

PlaceListArgs(startTimes, endTimes) ==
    [name : {Text("Guangzhou")}, accurate : {PyInt(1)},
     startTime : startTimes, endTime : endTimes,
     start : {PyInt(1)}, list_length : {PyInt(10)}]

QueryPlaceArgs(dateTypes, years, dynasties) ==
    [people_place : {PyList(<<PyInt(2928), PyInt(10522)>>)},
     place_type : {PyList(<<Text("individual"), Text("entry")>>)},
     use_date : {PyInt(1)},
     date_type : dateTypes,
     date_start_time : years, date_end_time : years,
     dyn_start : dynasties, dyn_end : dynasties,
     use_xy : {PyInt(0)}, start : {PyInt(1)}, list_length : {PyInt(50)}]

GazetteerArgs(years, featureTypes, parents, starts, lengths) ==
    [name : {Text("long")}, year : years, feature_type : featureTypes,
     parent : parents,
     start : {PyInt(k) : k \in starts}, list_length : {PyInt(k) : k \in lengths}]

IdAlphabet == {"h", "_", "8"}

FreeIds == UNION {[1..k -> IdAlphabet] : k \in 0..MaxIdLen}

\* identifiers with every proper part of the prefix, the prefix itself, and
\* the prefix displaced by one character
PlaceIds ==
    UNION {{SubSeq(HvdPrefix, 1, k) \o x : x \in FreeIds} : k \in 0..Len(HvdPrefix)}
    \cup {<<"8">> \o HvdPrefix \o x : x \in FreeIds}
    \cup {<<"H", "V", "D", "_">> \o x : x \in FreeIds}

DetailArgs(ids) == [place_id : {PyStr(x) : x \in ids}]

ErrorReply(exc) == [kind |-> "error", exc |-> exc]

Response(status, decodable, body) ==
    [kind |-> "response", status |-> status, decodable |-> decodable, body |-> body]

TransportErrors ==
    {Exc("ConnectError", <<"All connection attempts failed">>, 0),
     Exc("ReadTimeout", <<>>, 0)}

InvalidURL == Exc("InvalidURL", <<"Invalid non-printable ASCII character in URL">>, 0)

\* one entry of an upstream 'placenames' list
Place(k) == PyDict([sys_id |-> PyStr(<<"hvd_">> \o StrOf(k)), name |-> Text("long")])

Places(len) == [k \in 1..len |-> Place(k)]

GazetteerBody(len, displayed) ==
    PyDict([system |-> Text("CHGIS"), memo |-> Text("Results for query matching key 'long'")]
           @@ ("count of displayed results" :> PyStr(displayed))
           @@ ("count of total results" :> PyStr(StrOf(len)))
           @@ ("placenames" :> PyList(Places(len))))

\* an upstream body without the list, as sent for a malformed query
GazetteerBodyWithoutList == PyDict([system |-> Text("CHGIS"), memo |-> Text("no query")])

PlaceListBody ==
    PyDict([total |-> PyInt(2), start |-> PyInt(1), end |-> PyInt(2),
            data |-> PyList(<<PyDict([pId |-> PyInt(2928)]), PyDict([pId |-> PyInt(10522)])>>)])

UpstreamErrorBody == PyDict([error |-> Text("no such place"), code |-> PyInt(3)])

DetailBody(sourceNote) ==
    PyDict([sys_id |-> Text("hvd_80547")]
           @@ ("data source" :> Text("CHGIS"))
           @@ ("source note" :> sourceNote))

DetailBodies ==
    {DetailBody(Text("{\"note\": \"unterminated")), DetailBody(PyNone),
     PyDict([sys_id |-> Text("hvd_80547")])}

StatusCodes == {404, 500}

Failures ==
    {ErrorReply(e) : e \in TransportErrors \cup {InvalidURL}}
    \cup {Response(c, TRUE, UpstreamErrorBody) : c \in StatusCodes}
    \cup {Response(200, FALSE, PyNone)}

OkReplies(bodies) == {Response(200, TRUE, b) : b \in bodies}

IsGazetteer(tool) == tool = "search_historical_places"

\* the list lengths, starts and page size of the documented examples
ExampleLengths == {5, 25}
ExampleStarts == {10, 11}
ExamplePages == {10}

GazetteerBodies ==
    {GazetteerBody(len, d) : len \in (0..MaxLen) \cup ExampleLengths,
                             d \in {<<"0">>, <<"2", "0", "0">>}}
    \cup {GazetteerBodyWithoutList}

\* every argument combination, one invocation at a time
WideCalls ==
    {Call("cbdb_addr.search_places_under_location", a) :
        a \in PlaceListArgs({PyNone, PyInt(0), PyInt(960)}, {PyNone, PyInt(0), PyInt(1279)})}
    \cup {Call("cbdb_addr_person.search_places_under_location", a) :
        a \in PlaceListArgs({PyNone, PyInt(0), PyInt(960)}, {PyNone, PyInt(0), PyInt(1279)})}
    \cup {Call("query_people_by_place", a) :
        a \in QueryPlaceArgs({PyNone, Text("dynasty")}, {PyNone, PyInt(0)}, {PyNone, PyInt(17)})}
    \cup {Call("search_historical_places", a) :
        a \in GazetteerArgs({PyNone, PyInt(0), PyInt(1420)}, {PyNone, PyStr(<<>>), Text("xian")},
                            {PyNone, Text("Chuzhou")}, (0 - 1)..MaxStart, (0 - 1)..MaxPage)}
    \cup {Call("search_historical_places", a) :
        a \in GazetteerArgs({PyNone}, {PyNone}, {PyNone}, ExampleStarts, ExamplePages)}
    \cup {Call("get_place_details", a) : a \in DetailArgs(PlaceIds)}

WideReplies(tool) ==
    Failures \cup OkReplies(CASE IsGazetteer(tool) -> GazetteerBodies
                              [] tool = "get_place_details" -> DetailBodies
                              [] OTHER -> {PlaceListBody, UpstreamErrorBody})

\* a few calls of every tool, for the interleavings of concurrent invocations
SmallCalls ==
    {Call("cbdb_addr.search_places_under_location", a) :
        a \in PlaceListArgs({PyNone}, {PyInt(1279)})}
    \cup {Call("cbdb_addr_person.search_places_under_location", a) :
        a \in PlaceListArgs({PyInt(960)}, {PyNone})}
    \cup {Call("query_people_by_place", a) :
        a \in QueryPlaceArgs({Text("dynasty")}, {PyNone}, {PyInt(17)})}
    \cup {Call("search_historical_places", a) :
        a \in GazetteerArgs({PyInt(800)}, {PyNone}, {PyNone}, {1, 3}, {0, 2})}
    \cup {Call("get_place_details", a) : a \in DetailArgs({<<"8", "0">>, HvdPrefix \o <<"8", "0">>})}

SmallReplies(tool) ==
    Failures \cup OkReplies(CASE IsGazetteer(tool) -> {GazetteerBody(3, <<"3">>), GazetteerBody(0, <<"0">>)}
                              [] tool = "get_place_details" -> {DetailBody(Text("{\"note\": \"unterminated"))}
                              [] OTHER -> {PlaceListBody})

(***************************************************************************)
(* State.  One slot per invocation in progress.                            *)
(*   pc        where the coroutine is                                      *)
(*   call      the tool and its arguments                                  *)
(*   request   the local api_url / params of the coroutine                 *)
(*   client    its httpx.AsyncClient: "none", "open" or "closed"           *)
(*   opens     clients it has opened                                       *)
(*   gets      client.get calls it has made                                *)
(*   wire      what each of its client.get calls was given                 *)
(*   reply     what client.get gave back                                   *)
(*   completed what the 'async with' block completed with                  *)
(*   result    what the coroutine gave its caller                          *)
(*   pages     the results a caller paging through one list has collected  *)
(***************************************************************************)
VARIABLES pc, call, request, client, opens, gets, wire, reply, completed, result, pages

vars == <<pc, call, request, client, opens, gets, wire, reply, completed, result, pages>>

Invocations == {1, 2}

NoCall == [tool |-> "none"]
NoRequest == [url |-> <<>>, params |-> NoParams]
NoReply == [kind |-> "none"]
NotCompleted == [raised |-> FALSE, value |-> PyNone]

\* the caller that pages through one upstream list
NoPager == [on |-> FALSE]

Idle ==
    /\ pc = [i \in Invocations |-> "idle"]
    /\ call = [i \in Invocations |-> NoCall]
    /\ request = [i \in Invocations |-> NoRequest]
    /\ client = [i \in Invocations |-> "none"]
    /\ opens = [i \in Invocations |-> 0]
    /\ gets = [i \in Invocations |-> 0]
    /\ wire = [i \in Invocations |-> <<>>]
    /\ reply = [i \in Invocations |-> NoReply]
    /\ completed = [i \in Invocations |-> NotCompleted]
    /\ result = [i \in Invocations |-> NotCompleted]

Init == Idle /\ pages = NoPager

\* a local variable of coroutine i
BindShared(f, i, v) == [j \in DOMAIN f |-> v]

Bind(f, i, v) == [f EXCEPT ![i] = v]

\* the state of the client once 'async with' is left
client_left_open_on_error(c) == IF c.raised THEN "open" ELSE "closed"

ClientAfterExit(c) == "closed"

\* the host calls the tool: the statements up to 'async with'
Invoke(i, c) ==
    /\ pc[i] = "idle"
    /\ pc' = [pc EXCEPT ![i] = "built"]
    /\ call' = [call EXCEPT ![i] = c]
    /\ request' = Bind(request, i, RequestOf(c))
    /\ UNCHANGED <<client, opens, gets, wire, reply, completed, result>>

\* async with httpx.AsyncClient() as client
Enter(i) ==
    /\ pc[i] = "built"
    /\ pc' = [pc EXCEPT ![i] = "entered"]
    /\ client' = [client EXCEPT ![i] = "open"]
    /\ opens' = [opens EXCEPT ![i] = @ + 1]
    /\ UNCHANGED <<call, request, gets, wire, reply, completed, result, pages>>

\* await client.get(...): the request leaves
Get(i) ==
    /\ pc[i] = "entered"
    /\ client[i] = "open"
    /\ pc' = [pc EXCEPT ![i] = "awaiting"]
    /\ gets' = [gets EXCEPT ![i] = @ + 1]
    /\ wire' = [wire EXCEPT ![i] = Append(@, request[i])]
    /\ UNCHANGED <<call, request, client, opens, reply, completed, result, pages>>

\* client.get is resumed with r; the rest of the block runs
Reply(i, r) ==
    /\ pc[i] = "awaiting"
    /\ pc' = [pc EXCEPT ![i] = "exiting"]
    /\ reply' = [reply EXCEPT ![i] = r]
    /\ completed' = Bind(completed, i, Body(call[i], r))
    /\ UNCHANGED <<call, request, client, opens, gets, wire, result, pages>>

\* the client's __aexit__, then the except clauses, then return
Exit(i) ==
    /\ pc[i] = "exiting"
    /\ pc' = [pc EXCEPT ![i] = "returned"]
    /\ client' = [client EXCEPT ![i] = ClientAfterExit(completed[i])]
    /\ result' = [result EXCEPT ![i] = Outcome(call[i].tool, completed[i])]
    /\ UNCHANGED <<call, request, opens, gets, wire, reply, completed, pages>>

\* the host has taken the result; the coroutine and its locals are gone
Collect(i) ==
    /\ pc[i] = "returned"
    /\ pc' = [pc EXCEPT ![i] = "idle"]
    /\ call' = [call EXCEPT ![i] = NoCall]
    /\ request' = [request EXCEPT ![i] = NoRequest]
    /\ client' = [client EXCEPT ![i] = IF @ = "closed" THEN "none" ELSE @]
    /\ opens' = [opens EXCEPT ![i] = 0]
    /\ gets' = [gets EXCEPT ![i] = 0]
    /\ wire' = [wire EXCEPT ![i] = <<>>]
    /\ reply' = [reply EXCEPT ![i] = NoReply]
    /\ completed' = [completed EXCEPT ![i] = NotCompleted]
    /\ result' = [result EXCEPT ![i] = NotCompleted]

\* concurrent invocations of all tools
Next ==
    \/ \E i \in Invocations, c \in SmallCalls : Invoke(i, c) /\ UNCHANGED pages
    \/ \E i \in Invocations : Enter(i)
    \/ \E i \in Invocations : Get(i)
    \/ \E i \in Invocations : \E r \in SmallReplies(call[i].tool) : Reply(i, r)
    \/ \E i \in Invocations : Exit(i)
    \/ \E i \in Invocations : Collect(i) /\ UNCHANGED pages

Spec == Init /\ [][Next]_vars

\* one invocation at a time, over every argument combination
NextWide ==
    \/ \E c \in WideCalls : Invoke(1, c) /\ UNCHANGED pages
    \/ Enter(1)
    \/ Get(1)
    \/ \E r \in WideReplies(call[1].tool) : Reply(1, r)
    \/ Exit(1)
    \/ Collect(1) /\ UNCHANGED pages

SpecWide == Init /\ [][NextWide]_vars

(***************************************************************************)
(* A caller that pages through one upstream list: it calls                 *)
(* search_historical_places with start = 1, 1 + n, 1 + 2n, ... against the *)
(* same upstream reply, up to one page past the reported total_pages, and  *)
(* keeps each result.                                                      *)
(***************************************************************************)
Pager(len, n) ==
    [on |-> TRUE, body |-> GazetteerBody(len, <<"2", "0", "0">>), n |-> n, got |-> <<>>]

ReportedPages == pages.got[1].v["pagination"].v.total_pages.v

PageCall ==
    Call("search_historical_places",
         [name |-> Text("long"), year |-> PyNone, feature_type |-> PyNone, parent |-> PyNone,
          start |-> PyInt(1 + Len(pages.got) * pages.n), list_length |-> PyInt(pages.n)])

PageInvoke ==
    /\ IF pages.got = <<>> THEN TRUE ELSE Len(pages.got) <= ReportedPages
    /\ Invoke(1, PageCall)
    /\ UNCHANGED pages

PageReply == Reply(1, Response(200, TRUE, pages.body))

PageCollect ==
    /\ Collect(1)
    /\ pages' = [pages EXCEPT !.got = Append(@, result[1].value)]

InitPages ==
    /\ Idle
    /\ pages \in {Pager(len, n) : len \in 1..MaxLen, n \in 1..MaxPage}

NextPages ==
    \/ PageInvoke
    \/ Enter(1)
    \/ Get(1)
    \/ PageReply
    \/ Exit(1)
    \/ PageCollect

SpecPages == InitPages /\ [][NextPages]_vars

(***************************************************************************)
(* Properties.                                                             *)
(***************************************************************************)
\* the number a decimal text stands for
RECURSIVE DecimalValue(_)
DecimalValue(t) ==
    IF t = <<>> THEN 0
    ELSE 10 * DecimalValue(SubSeq(t, 1, Len(t) - 1))
         + (CHOOSE d \in 0..9 : Digit[d + 1] = t[Len(t)])

\* t is the decimal rendering of the natural number n
IsDecimalOf(t, n) ==
    /\ t # <<>>
    /\ \A k \in 1..Len(t) : \E d \in 1..10 : Digit[d] = t[k]
    /\ Len(t) > 1 => t[1] # "0"
    /\ DecimalValue(t) = n

Min(a, b) == IF a <= b THEN a ELSE b

\* the upstream answered with a success status and a decodable body
Successful(r) ==
    /\ r.kind = "response"
    /\ r.status >= 200 /\ r.status <= 299
    /\ r.decodable

\* invocation i of the gazetteer search has returned after a successful
\* upstream response that carries a 'placenames' list
GazetteerReturned(i) ==
    /\ pc[i] = "returned"
    /\ call[i].tool = "search_historical_places"
    /\ Successful(reply[i])
    /\ "placenames" \in DOMAIN reply[i].body.v

Upstream(i) == reply[i].body.v["placenames"].v
StartOf(i) == call[i].args.start.v
LengthOf(i) == call[i].args.list_length.v

\* the elements of list at zero-based positions [s-1, min(s-1+n, L)) when
\* s <= L, the empty list otherwise
PageOf(list, s, n) ==
    IF s <= Len(list)
    THEN [k \in 1..(Min(s - 1 + n, Len(list)) - (s - 1)) |-> list[s - 1 + k]]
    ELSE <<>>

SliceAndCount(i) ==
    /\ ~result[i].raised
    /\ result[i].value.t = "dict"
    /\ "placenames" \in DOMAIN result[i].value.v
    /\ result[i].value.v["placenames"] = PyList(PageOf(Upstream(i), StartOf(i), LengthOf(i)))
    /\ "count of displayed results" \in DOMAIN result[i].value.v
    /\ result[i].value.v["count of displayed results"].t = "str"
    /\ IsDecimalOf(result[i].value.v["count of displayed results"].v,
                   Len(PageOf(Upstream(i), StartOf(i), LengthOf(i))))

\* C1 as stated: for every successful upstream response with a 'placenames'
\* list of length L >= 0, every start >= 1 and list_length >= 1, the returned
\* list is the page [start-1, min(start-1+list_length, L)) of the upstream
\* list (empty when start > L) and 'count of displayed results' is the
\* decimal text of its length.
C1_Stated ==
    \A i \in Invocations :
        GazetteerReturned(i) /\ StartOf(i) >= 1 /\ LengthOf(i) >= 1
        => SliceAndCount(i)

\* C1, amended: the same for every non-empty upstream list (L >= 1); for an
\* empty upstream list the decoded payload is returned as it is, so the
\* returned list is empty and 'count of displayed results' is whatever the
\* upstream sent.
C1_SliceAndCount ==
    \A i \in Invocations :
        GazetteerReturned(i) /\ StartOf(i) >= 1 /\ LengthOf(i) >= 1
        => IF Len(Upstream(i)) >= 1
           THEN SliceAndCount(i)
           ELSE /\ result[i] = Returns(reply[i].body)
                /\ result[i].value.v["placenames"] = PyList(<<>>)

C1_Witness ==
    \E i \in Invocations :
        /\ GazetteerReturned(i)
        /\ StartOf(i) = 2 /\ LengthOf(i) = 2 /\ Len(Upstream(i)) = 4
        /\ ~result[i].raised
        /\ result[i].value.v["placenames"].v = <<Place(2), Place(3)>>
        /\ result[i].value.v["count of displayed results"].v = <<"2">>

\* the least number of pages of n entries that hold total entries
CeilDiv(total, n) == CHOOSE p \in 0..total : p * n >= total /\ (p = 0 \/ (p - 1) * n < total)

ExpectedPagination(i) ==
    LET k == Len(PageOf(Upstream(i), StartOf(i), LengthOf(i)))
    IN  PyDict([start |-> PyInt(StartOf(i)),
                end |-> PyInt(IF k > 0 THEN Min(StartOf(i) + k - 1, Len(Upstream(i)))
                              ELSE StartOf(i)),
                total_pages |-> PyInt(CeilDiv(Len(Upstream(i)), LengthOf(i)))])

HasPagination(i) ==
    /\ ~result[i].raised
    /\ result[i].value.t = "dict"
    /\ "pagination" \in DOMAIN result[i].value.v
    /\ result[i].value.v["pagination"] = ExpectedPagination(i)

\* C2 as stated: for every successful upstream response with a 'placenames'
\* list of length L >= 0, start >= 1 and list_length >= 1, the result carries
\* pagination = {start, end = min(start + k - 1, L) for a slice of k > 0
\* entries and start for an empty slice, total_pages = ceil(L / list_length)}.
C2_Stated ==
    \A i \in Invocations :
        GazetteerReturned(i) /\ StartOf(i) >= 1 /\ LengthOf(i) >= 1
        => HasPagination(i)

\* C2, amended: the result carries that pagination object for every
\* non-empty upstream list (L >= 1); for an empty upstream list the payload
\* is returned as decoded and no pagination object is attached.
C2_Pagination ==
    \A i \in Invocations :
        GazetteerReturned(i) /\ StartOf(i) >= 1 /\ LengthOf(i) >= 1
        => IF Len(Upstream(i)) >= 1
           THEN HasPagination(i)
           ELSE result[i] = Returns(reply[i].body)

C2_Witness ==
    \E i \in Invocations :
        /\ GazetteerReturned(i)
        /\ StartOf(i) = 11 /\ LengthOf(i) = 10 /\ Len(Upstream(i)) = 25
        /\ ~result[i].raised
        /\ result[i].value.v["pagination"]
             = PyDict([start |-> PyInt(11), end |-> PyInt(20), total_pages |-> PyInt(3)])

C2_WitnessPastTheEnd ==
    \E i \in Invocations :
        /\ GazetteerReturned(i)
        /\ StartOf(i) = 10 /\ LengthOf(i) = 10 /\ Len(Upstream(i)) = 5
        /\ ~result[i].raised
        /\ result[i].value.v["placenames"] = PyList(<<>>)
        /\ result[i].value.v["pagination"]
             = PyDict([start |-> PyInt(10), end |-> PyInt(10), total_pages |-> PyInt(1)])

C1_WitnessTwoDigits ==
    \E i \in Invocations :
        /\ GazetteerReturned(i)
        /\ StartOf(i) = 11 /\ LengthOf(i) = 10 /\ Len(Upstream(i)) = 25
        /\ ~result[i].raised
        /\ Len(result[i].value.v["placenames"].v) = 10
        /\ result[i].value.v["count of displayed results"].v = <<"1", "0">>

\* the value is an object whose only key is 'error', with a string value
IsErrorObject(v) ==
    /\ v.t = "dict"
    /\ DOMAIN v.v = {"error"}
    /\ v.v["error"].t = "str"

\* the upstream answered, successfully, and the local post-processing did
\* not fail
Succeeded(i) == Successful(reply[i]) /\ ~completed[i].raised

\* C3: whatever the outbound request ends with (success, transport failure,
\* HTTP error status, undecodable body, an exception of the local
\* post-processing such as list_length = 0), every tool returns a value and
\* raises nothing: the success result, or an object whose only key is
\* 'error' with a string value.
C3_AlwaysAValue ==
    \A i \in Invocations :
        pc[i] = "returned"
        => /\ ~result[i].raised
           /\ result[i].value.t = "dict"
           /\ IF Succeeded(i)
              THEN result[i].value = completed[i].value
              ELSE IsErrorObject(result[i].value)

C3_Witness ==
    \E i \in Invocations :
        /\ pc[i] = "returned"
        /\ call[i].tool = "search_historical_places"
        /\ LengthOf(i) = 0
        /\ Successful(reply[i]) /\ Len(Upstream(i)) = 3
        /\ completed[i].raised /\ completed[i].exc.cls = "ZeroDivisionError"
        /\ IsErrorObject(result[i].value)

\* text t holds the tokens of part, in a row
Contains(t, part) ==
    \E k \in 0..(Len(t) - Len(part)) : SubSeq(t, k + 1, k + Len(part)) = part

Message(i) == result[i].value.v["error"].v

TransportFailure(r) == r.kind = "error" /\ r.exc.cls \in {"ConnectError", "ReadTimeout"}
StatusFailure(r) == r.kind = "response" /\ ~(r.status >= 200 /\ r.status <= 299)
DecodeFailure(r) == r.kind = "response" /\ r.status >= 200 /\ r.status <= 299 /\ ~r.decodable
OtherFailure(r) == r.kind = "error" /\ ~TransportFailure(r)

\* the template get_place_details is to use for each category of failure
TemplateFor(r) ==
    CASE TransportFailure(r) -> "API request failed: "
      [] StatusFailure(r)    -> "HTTP error status: "
      [] DecodeFailure(r)    -> "Invalid response format: "
      [] OtherFailure(r)     -> "An unexpected error occurred: "

\* C4: the category of the failure decides the message.  In every tool a
\* transport failure gives 'API request failed: ...'; in get_place_details
\* an HTTP error status gives a message with the status code in it, an
\* undecodable body the 'Invalid response format' message, any other
\* exception the 'An unexpected error occurred' message: four distinct
\* templates, none shadowed by an earlier handler.
C4_MessageByCategory ==
    \A i \in Invocations :
        pc[i] = "returned" /\ ~Successful(reply[i])
        => /\ IsErrorObject(result[i].value)
           /\ TransportFailure(reply[i])
              => Message(i) = <<"API request failed: ">> \o reply[i].exc.text
           /\ call[i].tool = "get_place_details"
              => /\ Message(i)[1] = TemplateFor(reply[i])
                 /\ StatusFailure(reply[i])
                    => /\ IsDecimalOf(Tail(Message(i)), reply[i].status)
                       /\ reply[i].status = 404 => Contains(Message(i), <<"4", "0", "4">>)
                 /\ \A j \in Invocations :
                       /\ pc[j] = "returned" /\ call[j].tool = "get_place_details"
                       /\ ~Successful(reply[j])
                       /\ TemplateFor(reply[j]) # TemplateFor(reply[i])
                       => Message(j)[1] # Message(i)[1]

C4_Witness ==
    \E i, j \in Invocations :
        /\ pc[i] = "returned" /\ call[i].tool = "get_place_details"
        /\ StatusFailure(reply[i]) /\ reply[i].status = 404
        /\ Message(i) = <<"HTTP error status: ", "4", "0", "4">>
        /\ pc[j] = "returned" /\ call[j].tool = "get_place_details"
        /\ DecodeFailure(reply[j])
        /\ Message(j)[1] = "Invalid response format: "

InProgress(i) == pc[i] \in {"built", "entered", "awaiting", "exiting"}

\* C5: an invocation opens exactly one client, makes at most one request on
\* it and none after a failure, and has closed the client when it returns,
\* on the success path and on every failure path; no client is open when no
\* invocation is in progress.
C5_OneClientOneRequest ==
    /\ \A i \in Invocations :
          /\ opens[i] <= 1
          /\ gets[i] <= 1
          /\ Len(wire[i]) = gets[i]
          /\ reply[i] # NoReply => gets[i] = 1
          /\ pc[i] = "returned" => opens[i] = 1 /\ client[i] = "closed"
          /\ client[i] = "open" => InProgress(i)
    /\ (\A i \in Invocations : ~InProgress(i)) => \A i \in Invocations : client[i] # "open"

C5_Witness ==
    \E i, j \in Invocations :
        /\ pc[i] = "returned" /\ ~Successful(reply[i])
        /\ opens[i] = 1 /\ gets[i] = 1 /\ client[i] = "closed"
        /\ pc[j] = "returned" /\ Succeeded(j)
        /\ opens[j] = 1 /\ gets[j] = 1 /\ client[j] = "closed"

\* what invocation i produces when it runs alone: its request from its own
\* arguments, its value from its own arguments and its own reply
AloneRequest(c) == RequestOf(c)
AloneValue(c, r) == Outcome(c.tool, Body(c, r))

\* C9: concurrent invocations share nothing.  Under every interleaving the
\* request of an invocation and the value it returns are those it produces
\* alone from its own arguments and its own upstream reply.
C9_Independent ==
    \A i \in Invocations :
        /\ pc[i] \in {"built", "entered"} => request[i] = AloneRequest(call[i])
        /\ pc[i] \in {"awaiting", "exiting", "returned"}
           => wire[i] = <<AloneRequest(call[i])>>
        /\ pc[i] = "exiting" => completed[i] = Body(call[i], reply[i])
        /\ pc[i] = "returned" => result[i] = AloneValue(call[i], reply[i])

C9_Witness ==
    \E i, j \in Invocations :
        /\ i # j
        /\ call[i].tool = "search_historical_places"
        /\ call[j].tool = "search_historical_places"
        /\ call[i].args # call[j].args
        /\ pc[i] = "returned" /\ Succeeded(i)
        /\ pc[j] = "awaiting"
        /\ call[j].args.start.v = 3

Supplied(x) == x.t # "None"

OnTheWire(i) == pc[i] = "awaiting" /\ Len(wire[i]) = 1

\* the keys of the optional arguments the caller supplied
SuppliedKeys(args, keyOf) == {keyOf[f] : f \in {g \in DOMAIN keyOf : Supplied(args[g])}}

PlaceListKeys == [startTime |-> "startTime", endTime |-> "endTime"]
GazetteerKeys == [year |-> "yr", feature_type |-> "ftyp", parent |-> "p"]

\* params holds the required keys and exactly the supplied optional ones,
\* each optional one with the value the caller gave
ParamsAre(params, required, args, keyOf) ==
    /\ DOMAIN params = required \cup SuppliedKeys(args, keyOf)
    /\ \A f \in DOMAIN keyOf : Supplied(args[f]) => params[keyOf[f]] = args[f]

PayloadKeys ==
    <<"peoplePlace", "placeType", "useDate", "dateType", "dateStartTime", "dateEndTime",
      "dynStart", "dynEnd", "useXy", "start", "list">>

OptionalPayloadKeys ==
    [date_type |-> "dateType", date_start_time |-> "dateStartTime",
     date_end_time |-> "dateEndTime", dyn_start |-> "dynStart", dyn_end |-> "dynEnd"]

\* the positions of text where key k of a JSON object starts
KeyAt(text, k) ==
    {j \in 1..(Len(text) - 3) : SubSeq(text, j, j + 3) = <<"\"", k, "\"", ":">>}

\* key k is in the JSON object once, and its value is null
IsNullIn(text, k) ==
    \E j \in KeyAt(text, k) : text[j + 4] = "null" /\ text[j + 5] \in {",", "}"}

RequestPayloadOf(req) == SubSeq(req.url, 3, Len(req.url))

\* C6: in search_places_under_location (both copies) and
\* search_historical_places the query holds the key of an optional argument
\* exactly when the caller supplied the argument, and always holds the
\* required keys; in query_people_by_place the serialized RequestPayload
\* holds all eleven keys, each unset optional one with the value null.
C6_OptionalParameters ==
    \A i \in Invocations :
        OnTheWire(i)
        => LET req == wire[i][1]
               args == call[i].args
           IN  /\ call[i].tool \in {"cbdb_addr.search_places_under_location",
                                     "cbdb_addr_person.search_places_under_location"}
                  => /\ ParamsAre(req.params, {"name", "accurate", "start", "list"},
                                  args, PlaceListKeys)
                     /\ req.params["name"] = args.name
                     /\ req.params["accurate"] = args.accurate
                     /\ req.params["start"] = args.start
                     /\ req.params["list"] = args.list_length
               /\ call[i].tool = "search_historical_places"
                  => /\ ParamsAre(req.params, {"fmt", "n"}, args, GazetteerKeys)
                     /\ req.params["fmt"] = Text("json")
                     /\ req.params["n"] = args.name
               /\ call[i].tool = "query_people_by_place"
                  => /\ req.url[2] = "?RequestPayload="
                     /\ \A k \in 1..Len(PayloadKeys) :
                           Cardinality(KeyAt(RequestPayloadOf(req), PayloadKeys[k])) = 1
                     /\ \A f \in DOMAIN OptionalPayloadKeys :
                           IsNullIn(RequestPayloadOf(req), OptionalPayloadKeys[f])
                           <=> ~Supplied(args[f])

C6_Witness ==
    \E i \in Invocations :
        /\ OnTheWire(i)
        /\ call[i].tool = "search_historical_places"
        /\ call[i].args.year = PyInt(0)
        /\ call[i].args.feature_type = PyStr(<<>>)
        /\ call[i].args.parent = PyNone
        /\ DOMAIN wire[i][1].params = {"fmt", "n", "yr", "ftyp"}

C6_WitnessPayload ==
    \E i \in Invocations :
        /\ OnTheWire(i)
        /\ call[i].tool = "query_people_by_place"
        /\ call[i].args.date_type = PyNone
        /\ call[i].args.dyn_start = PyInt(17)
        /\ IsNullIn(RequestPayloadOf(wire[i][1]), "dateType")
        /\ ~IsNullIn(RequestPayloadOf(wire[i][1]), "dynStart")

\* the identifier in the path of a place-detail request
PathId(req) == SubSeq(req.url, 2, Len(req.url))

HasHvdPrefix(id) ==
    /\ Len(id) >= 4
    /\ id[1] = "h" /\ id[2] = "v" /\ id[3] = "d" /\ id[4] = "_"

\* C7: the identifier get_place_details puts in the path starts with 'hvd_':
\* an identifier that starts with 'hvd_' is used as it is, any other x is
\* used as 'hvd_' + x; normalizing a normalized identifier changes nothing.
C7_PlaceIdPrefix ==
    \A i \in Invocations :
        OnTheWire(i) /\ call[i].tool = "get_place_details"
        => LET id == call[i].args.place_id.v
               used == PathId(wire[i][1])
           IN  /\ HasHvdPrefix(used)
               /\ IF HasHvdPrefix(id) THEN used = id
                  ELSE used = <<"h", "v", "d", "_">> \o id
               /\ normalize_place_id(used) = used

C7_Witness ==
    \E i \in Invocations :
        /\ OnTheWire(i) /\ call[i].tool = "get_place_details"
        /\ call[i].args.place_id.v = <<"h", "v", "d", "_", "8">>
        /\ PathId(wire[i][1]) = <<"h", "v", "d", "_", "8">>

C7_WitnessBare ==
    \E i \in Invocations :
        /\ OnTheWire(i) /\ call[i].tool = "get_place_details"
        /\ call[i].args.place_id.v = <<"h", "v", "d", "8">>
        /\ PathId(wire[i][1]) = <<"h", "v", "d", "_", "h", "v", "d", "8">>

PaginationFields == {"placenames", "count of displayed results", "pagination"}

\* the returned value is the upstream payload outside the pagination fields
SameOutsidePagination(value, body) ==
    /\ value.t = "dict"
    /\ DOMAIN value.v \ PaginationFields = DOMAIN body.v \ PaginationFields
    /\ \A k \in DOMAIN body.v \ PaginationFields : value.v[k] = body.v[k]

Passthrough(i) ==
    /\ ~result[i].raised
    /\ IF call[i].tool = "search_historical_places"
       THEN SameOutsidePagination(result[i].value, reply[i].body)
       ELSE result[i].value = reply[i].body

PageCountFails(i) ==
    /\ call[i].tool = "search_historical_places"
    /\ LengthOf(i) = 0
    /\ "placenames" \in DOMAIN reply[i].body.v
    /\ Upstream(i) # <<>>

C8_WitnessSourceNote ==
    \E i \in Invocations :
        /\ pc[i] = "returned" /\ call[i].tool = "get_place_details"
        /\ Successful(reply[i])
        /\ "source note" \in DOMAIN reply[i].body.v
        /\ result[i].value.v["source note"] = Text("{\"note\": \"unterminated")

Range(q) == {q[k] : k \in 1..Len(q)}

RECURSIVE Concat(_, _)
\* the lists q[1], ..., q[k], one after the other
Concat(q, k) == IF k = 0 THEN <<>> ELSE Concat(q, k - 1) \o q[k]

PageList(k) == pages.got[k].v["placenames"].v
PageInfo(k) == pages.got[k].v["pagination"].v

\* C10: the pages partition the upstream list.  With P the reported
\* total_pages of a list of L >= 1 entries and page size n >= 1, the calls
\* with start = 1, 1 + n, ..., 1 + (P-1)n each return a non-empty slice whose
\* reported end is start + length - 1, the slices are pairwise disjoint and,
\* one after the other, are the upstream list; the call with start = 1 + Pn
\* returns an empty slice.
C10_PagesPartition ==
    pages.on /\ pages.got # <<>>
    => LET P == ReportedPages
           seen == Min(Len(pages.got), P)
           upstream == pages.body.v["placenames"].v
       IN  /\ \A k \in 1..seen :
                 /\ PageList(k) # <<>>
                 /\ PageInfo(k).start.v = 1 + (k - 1) * pages.n
                 /\ PageInfo(k).end.v = PageInfo(k).start.v + Len(PageList(k)) - 1
           /\ \A j, k \in 1..seen :
                 j < k => Range(PageList(j)) \cap Range(PageList(k)) = {}
           /\ Len(pages.got) >= P
              => Concat([k \in 1..P |-> PageList(k)], P) = upstream
           /\ Len(pages.got) = P + 1 => PageList(P + 1) = <<>>

C10_Witness ==
    /\ pages.on
    /\ Len(pages.got) = 3
    /\ ReportedPages = 2
    /\ pages.n = 3
    /\ PageList(1) = <<Place(1), Place(2), Place(3)>>
    /\ PageList(2) = <<Place(4)>>
    /\ PageList(3) = <<>>

====
